---- MODULE Spec2Model ----
(***************************************************************************)
(* Model of the Safe multisig transaction exchange of safe-protocol-minimal *)
(* : the parsing worker (txWorker.ts), the SafeService wrapper around the   *)
(* Safe protocol kit (SafeService.ts) and the App component's handlers      *)
(* (second <script> of CreateSafe.svelte), and the CreateSafe form (first   *)
(* <script> of CreateSafe.svelte).                                          *)
(*                                                                          *)
(* JavaScript values are tagged records, a text is a sequence of tokens,    *)
(* and JSON.stringify / JSON.parse are computed over those tokens.          *)
(***************************************************************************)
EXTENDS Integers, Sequences, FiniteSets, TLC

(***************************************************************************)
(* Bounds of the model.                                                     *)
(***************************************************************************)
MaxQueue == 2
MaxNonce == 1
MaxCalls == 1
MaxOps == 2
MaxLongOps == 3
MaxOwners == 2
MaxFormOps == 3
MaxDirectOps == 2

(***************************************************************************)
(* JavaScript values.  An object is an ordered sequence of <<key, value>>   *)
(* pairs (own properties in insertion order).                               *)
(***************************************************************************)
JNull == [t |-> "null"]
JUndef == [t |-> "undef"]
JBool(b) == [t |-> "bool", b |-> b]
JTrue == JBool(TRUE)
JStr(s) == [t |-> "str", s |-> s]
JNum(n) == [t |-> "num", n |-> n]
JArr(a) == [t |-> "arr", a |-> a]
JObj(ps) == [t |-> "obj", o |-> ps]

IsStr(x) == x.t = "str"
IsArr(x) == x.t = "arr"
IsObj(x) == x.t = "obj"

\* JavaScript truthiness, as used by `!x` and `if (x)`.
Truthy(x) ==
  CASE x.t = "null" -> FALSE
    [] x.t = "undef" -> FALSE
    [] x.t = "bool" -> x.b
    [] x.t = "str" -> x.s # ""
    [] x.t = "num" -> x.n # 0
    [] OTHER -> TRUE

HasKey(ps, k) == \E i \in 1..Len(ps) : ps[i][1] = k

KeyIndex(ps, k) == CHOOSE i \in 1..Len(ps) : ps[i][1] = k

\* Property read o.k : undefined when o has no own property k (none of the
\* keys read by this program is inherited by a string, number, boolean or array).
Get(o, k) ==
  IF IsObj(o) /\ HasKey(o.o, k) THEN o.o[KeyIndex(o.o, k)][2] ELSE JUndef

\* Property write on a list of own properties: an existing key keeps its
\* position, a new key is appended.
PutKey(ps, k, x) ==
  IF HasKey(ps, k)
    THEN [ps EXCEPT ![KeyIndex(ps, k)] = <<k, x>>]
    ELSE Append(ps, <<k, x>>)

(***************************************************************************)
(* Texts.  A text is a sequence of tokens.                                  *)
(***************************************************************************)
P(c) == [k |-> "punct", c |-> c]
TStr(s) == [s |-> s, k |-> "str"]
TNum(n) == [n |-> n, k |-> "num"]
TLit(w) == [k |-> "lit", w |-> w]
TWord(w) == [k |-> "word", w |-> w]
\* One space, and a line break followed by 2 * d spaces of indentation.
Ws == [k |-> "ws"]
Nl(d) == [k |-> "nl", d |-> d]

IsWs(tok) == tok.k \in {"ws", "nl"}

\* String.prototype.trim() leaves nothing.
IsBlank(text) == \A i \in 1..Len(text) : IsWs(text[i])

RECURSIVE SkipWs(_)
SkipWs(toks) ==
  IF toks # <<>> /\ IsWs(Head(toks)) THEN SkipWs(Tail(toks)) ELSE toks

(***************************************************************************)
(* JSON.stringify(x, null, 2).                                              *)
(***************************************************************************)
RECURSIVE Stringify(_, _)
RECURSIVE StringifyElems(_, _, _)
RECURSIVE StringifyProps(_, _, _)

\* Own properties whose value is undefined are skipped by JSON.stringify.
Defined(ps) == SelectSeq(ps, LAMBDA p : p[2].t # "undef")

StringifyElems(s, d, first) ==
  IF s = <<>> THEN <<>>
  ELSE (IF first THEN <<>> ELSE <<P(",")>>) \o <<Nl(d)>>
       \o (IF Head(s).t = "undef" THEN <<TLit("null")>> ELSE Stringify(Head(s), d))
       \o StringifyElems(Tail(s), d, FALSE)

StringifyProps(ps, d, first) ==
  IF ps = <<>> THEN <<>>
  ELSE (IF first THEN <<>> ELSE <<P(",")>>) \o <<Nl(d)>>
       \o <<TStr(Head(ps)[1]), P(":"), Ws>> \o Stringify(Head(ps)[2], d)
       \o StringifyProps(Tail(ps), d, FALSE)

Stringify(x, d) ==
  CASE x.t = "null" -> <<TLit("null")>>
    [] x.t = "bool" -> <<TLit(IF x.b THEN "true" ELSE "false")>>
    [] x.t = "str" -> <<TStr(x.s)>>
    [] x.t = "num" -> <<TNum(x.n)>>
    [] x.t = "arr" ->
         IF x.a = <<>> THEN <<P("["), P("]")>>
         ELSE <<P("[")>> \o StringifyElems(x.a, d + 1, TRUE) \o <<Nl(d), P("]")>>
    [] x.t = "obj" ->
         IF Defined(x.o) = <<>> THEN <<P("{"), P("}")>>
         ELSE <<P("{")>> \o StringifyProps(Defined(x.o), d + 1, TRUE) \o <<Nl(d), P("}")>>
    [] OTHER -> <<>>

\* Variant: the nonce is left out of the text.
Serialize_NoNonce(x) ==
  Stringify(IF IsObj(x) THEN JObj(SelectSeq(x.o, LAMBDA p : p[1] # "nonce")) ELSE x, 0)

\* JSON.stringify(currentTx, null, 2)
Serialize(x) == Stringify(x, 0)

(***************************************************************************)
(* JSON.parse(text): recursive descent over the tokens.  A result is        *)
(* [ok, val, rest]; ok = FALSE is a SyntaxError.                            *)
(***************************************************************************)
Bad == [ok |-> FALSE, val |-> JUndef, rest |-> <<>>]
Good(x, r) == [ok |-> TRUE, val |-> x, rest |-> r]

RECURSIVE ParseValue(_)
RECURSIVE ParseElems(_, _)
RECURSIVE ParseMembers(_, _)

ParseElems(toks, acc) ==
  LET r == ParseValue(toks) IN
  IF ~r.ok THEN Bad
  ELSE LET t == SkipWs(r.rest) IN
       IF t = <<>> THEN Bad
       ELSE IF Head(t) = P(",") THEN ParseElems(Tail(t), Append(acc, r.val))
       ELSE IF Head(t) = P("]") THEN Good(JArr(Append(acc, r.val)), Tail(t))
       ELSE Bad

ParseMembers(toks, acc) ==
  LET t1 == SkipWs(toks) IN
  IF t1 = <<>> \/ Head(t1).k # "str" THEN Bad
  ELSE LET t2 == SkipWs(Tail(t1)) IN
       IF t2 = <<>> \/ Head(t2) # P(":") THEN Bad
       ELSE LET r == ParseValue(Tail(t2)) IN
            IF ~r.ok THEN Bad
            ELSE LET t3 == SkipWs(r.rest)
                     acc2 == PutKey(acc, Head(t1).s, r.val) IN
                 IF t3 = <<>> THEN Bad
                 ELSE IF Head(t3) = P(",") THEN ParseMembers(Tail(t3), acc2)
                 ELSE IF Head(t3) = P("}") THEN Good(JObj(acc2), Tail(t3))
                 ELSE Bad

ParseValue(toks) ==
  LET t == SkipWs(toks) IN
  IF t = <<>> THEN Bad
  ELSE LET h == Head(t) IN
    CASE h.k = "str" -> Good(JStr(h.s), Tail(t))
      [] h.k = "num" -> Good(JNum(h.n), Tail(t))
      [] h.k = "lit" ->
           Good(IF h.w = "null" THEN JNull ELSE JBool(h.w = "true"), Tail(t))
      [] h = P("[") ->
           LET t2 == SkipWs(Tail(t)) IN
           IF t2 # <<>> /\ Head(t2) = P("]") THEN Good(JArr(<<>>), Tail(t2))
           ELSE ParseElems(Tail(t), <<>>)
      [] h = P("{") ->
           LET t2 == SkipWs(Tail(t)) IN
           IF t2 # <<>> /\ Head(t2) = P("}") THEN Good(JObj(<<>>), Tail(t2))
           ELSE ParseMembers(Tail(t), <<>>)
      [] OTHER -> Bad

\* JSON.parse: one value, then nothing but white space.
JSONParse(text) ==
  LET r == ParseValue(text) IN
  IF r.ok /\ SkipWs(r.rest) = <<>> THEN Good(r.val, <<>>) ELSE Bad

(***************************************************************************)
(* txWorker.ts : self.onmessage.  The reply is [error, tx].                 *)
(***************************************************************************)
SyntaxErrorMsg == "Unexpected token in JSON"
TypeErrorMsg == "Cannot read properties of null (reading 'to')"
InvalidFormatMsg == "Invalid transaction format"

Reply(e, x) == [error |-> e, tx |-> x]

\* Variant: the reply is rebuilt from the declared fields only.
WorkerOnMessage_Sanitizing(txData) ==
  IF IsBlank(txData) THEN Reply(JNull, JNull)
  ELSE LET r == JSONParse(txData) IN
    IF ~r.ok THEN Reply(JStr(SyntaxErrorMsg), JNull)
    ELSE LET parsedTx == r.val IN
      IF parsedTx.t = "null" THEN Reply(JStr(TypeErrorMsg), JNull)
      ELSE IF \/ ~Truthy(Get(parsedTx, "to"))
              \/ ~Truthy(Get(parsedTx, "value"))
              \/ ~Truthy(Get(parsedTx, "data"))
              \/ ~IsArr(Get(parsedTx, "signatures"))
        THEN Reply(JStr(InvalidFormatMsg), JNull)
        ELSE Reply(JNull, JObj(Defined(<<<<"to", Get(parsedTx, "to")>>,
                                         <<"value", Get(parsedTx, "value")>>,
                                         <<"data", Get(parsedTx, "data")>>,
                                         <<"signatures", Get(parsedTx, "signatures")>>,
                                         <<"nonce", Get(parsedTx, "nonce")>>>>)))

WorkerOnMessage(txData) ==
  IF IsBlank(txData) THEN Reply(JNull, JNull)
  ELSE LET r == JSONParse(txData) IN
    IF ~r.ok THEN Reply(JStr(SyntaxErrorMsg), JNull)
    ELSE LET parsedTx == r.val IN
      IF parsedTx.t = "null" THEN Reply(JStr(TypeErrorMsg), JNull)
      ELSE IF \/ ~Truthy(Get(parsedTx, "to"))
              \/ ~Truthy(Get(parsedTx, "value"))
              \/ ~Truthy(Get(parsedTx, "data"))
              \/ ~IsArr(Get(parsedTx, "signatures"))
        THEN Reply(JStr(InvalidFormatMsg), JNull)
        ELSE Reply(JNull, parsedTx)

(***************************************************************************)
(* Addresses and String.prototype.toLowerCase on the strings of the model.  *)
(***************************************************************************)
AcctA == "0xAAaa"
AcctB == "0xBBbb"
Accounts == {AcctA, AcctB}
SafeAddr == "0x5afe"

ToLowerCase(s) ==
  CASE s = "0xAAaa" -> "0xaaaa"
    [] s = "0xBBbb" -> "0xbbbb"
    [] s = "0xCCcc" -> "0xcccc"
    [] OTHER -> s

(***************************************************************************)
(* The Safe protocol kit as SafeService.ts uses it.                         *)
(*   createTransaction({transactions: [{to, value, data}]}) fills the nonce *)
(*   with the Safe's current nonce; a SafeTransaction keeps its signatures  *)
(*   in a Map, read back with signatures.entries(), whose key is the        *)
(*   lower-cased signer.                                                    *)
(***************************************************************************)
TxData(to, value, data, nonce) ==
  [to |-> to, value |-> value, data |-> data, nonce |-> nonce]

\* Variant: an array that is pushed to, where the kit keeps a Map.
MapSet_Append(m, k, x) == Append(m, <<k, x>>)

\* Map.prototype.set : same rule as a property write.
MapSet(m, k, x) == PutKey(m, k, x)

\* safeTransaction.addSignature({signer, data, ...}) for each sig in order.
RECURSIVE AddSignatures(_, _)
AddSignatures(m, sigs) ==
  IF sigs = <<>> THEN m
  ELSE AddSignatures(
         MapSet(m, ToLowerCase(Get(Head(sigs), "signer").s), Get(Head(sigs), "data")),
         Tail(sigs))

\* signature.signer.toLowerCase() throws unless signer is a string.
SignaturesUsable(sigs) ==
  \A i \in 1..Len(sigs) : IsStr(Get(sigs[i], "signer"))

\* How a field of a transaction enters its hash.
Show(x) ==
  CASE x.t = "str" -> x.s
    [] x.t = "num" -> ToString(x.n)
    [] OTHER -> x.t

\* protocolKit.getTransactionHash : determined by to, value, data and nonce.
TxHash(d) ==
  "h(" \o Show(d.to) \o "," \o Show(d.value) \o "," \o Show(d.data) \o ","
       \o ToString(d.nonce) \o ")"

\* The signature the wallet produces: by the signer, over the hash.
SignatureOf(signer, d) == JStr("sig(" \o ToLowerCase(signer) \o "," \o TxHash(d) \o ")")

\* Variant: the signed copy starts from no signature.
SignTransaction_Dropping(m, signer, d) ==
  <<<<ToLowerCase(signer), SignatureOf(signer, d)>>>>

\* protocolKit.signTransaction : the signatures already attached, then the
\* signer's own.
SignTransaction(m, signer, d) ==
  MapSet(m, ToLowerCase(signer), SignatureOf(signer, d))

\* Variant: the entries are listed newest first.
EntriesToSignatures_Reversed(m) ==
  [i \in 1..Len(m) |->
     JObj(<<<<"signer", JStr(m[Len(m) + 1 - i][1])>>, <<"data", m[Len(m) + 1 - i][2]>>>>)]

\* Array.from(signedTx.signatures.entries()).map(([signer, sig]) => ({signer, data: sig.data}))
EntriesToSignatures(m) ==
  [i \in 1..Len(m) |-> JObj(<<<<"signer", JStr(m[i][1])>>, <<"data", m[i][2]>>>>)]

(***************************************************************************)
(* SafeService.ts : the three operations on a serialized transaction, as    *)
(* functions of the record, the kit's signer and the Safe's current nonce.  *)
(***************************************************************************)
\* createTransaction: lines 92-100.
CreateSafeTx(txData, safeNonce) ==
  TxData(Get(txData, "to"),
         IF Truthy(Get(txData, "value")) THEN Get(txData, "value") ELSE JStr("0"),
         IF Truthy(Get(txData, "data")) THEN Get(txData, "data") ELSE JStr("0x"),
         safeNonce)

\* createTransaction: lines 103-122.
CreateSerializedTx(txData, signer, safeNonce) ==
  LET d == CreateSafeTx(txData, safeNonce)
      signedTx == SignTransaction(<<>>, signer, d)
  IN JObj(<<<<"to", d.to>>,
            <<"value", d.value>>,
            <<"data", IF Truthy(d.data) THEN d.data ELSE JStr("0x")>>,
            <<"signatures", JArr(EntriesToSignatures(signedTx))>>,
            <<"nonce", JNum(d.nonce)>>>>)

\* addSignature / executeTransaction: the transaction built from the record
\* (lines 137-145 and 188-196).
RebuildSafeTx(serializedTx, safeNonce) ==
  TxData(Get(serializedTx, "to"), Get(serializedTx, "value"),
         Get(serializedTx, "data"), safeNonce)

\* The for-of loop over serializedTx.signatures throws on a value that is not
\* iterable, and addSignature on a signer that is not a string.
CanAttach(serializedTx) ==
  /\ IsArr(Get(serializedTx, "signatures"))
  /\ SignaturesUsable(Get(serializedTx, "signatures").a)

\* The signatures attached before signing or executing (lines 148-156, 199-207).
Attached(serializedTx) == AddSignatures(<<>>, Get(serializedTx, "signatures").a)

\* addSignature: lines 159-176, {...serializedTx, signatures}.
AddSignatureResult(serializedTx, signer, safeNonce) ==
  LET d == RebuildSafeTx(serializedTx, safeNonce)
      signedTx == SignTransaction(Attached(serializedTx), signer, d)
  IN JObj(PutKey(serializedTx.o, "signatures", JArr(EntriesToSignatures(signedTx))))

(***************************************************************************)
(* The texts a user types or pastes into the transaction field.             *)
(***************************************************************************)
Sig(signer, data) == JObj(<<<<"signer", JStr(signer)>>, <<"data", JStr(data)>>>>)

Rec(to, value, data, sigs) ==
  JObj(<<<<"to", JStr(to)>>, <<"value", JStr(value)>>, <<"data", JStr(data)>>,
         <<"signatures", JArr(sigs)>>>>)

RecN(to, value, data, sigs, nonce) ==
  JObj(Append(Rec(to, value, data, sigs).o, <<"nonce", JNum(nonce)>>))

\* Structurally valid records: a signer in mixed case, one signer twice, a
\* record the first account has signed.
ValidRecords ==
  { RecN("0x1111", "1000", "0x", <<Sig("0xCCcc", "0xs1")>>, 0),
    RecN("0x1111", "1000", "0x", <<Sig("0xcccc", "0xs1"), Sig("0xcccc", "0xs2")>>, 0),
    RecN("0x1111", "0", "0xabcd", <<Sig("0xaaaa", "0xs3")>>, 1) }

\* An object that passes the presence checks without being a record of the
\* declared type: fields in another order, a number and a boolean where
\* strings are declared, a signature without data, an unknown field.
OddRecords ==
  { JObj(<<<<"nonce", JNum(0)>>, <<"to", JNum(7)>>, <<"value", JStr("lots")>>,
           <<"data", JTrue>>, <<"signatures", JArr(<<JObj(<<<<"signer", JStr("0xcccc")>>>>)>>)>>,
           <<"memo", JStr("hi")>>>>) }

\* An object that passes the presence checks and whose signature has a
\* number where the signer is declared.
UnsignableRecords ==
  { JObj(<<<<"to", JStr("0x1111")>>, <<"value", JStr("1000")>>, <<"data", JStr("0x")>>,
           <<"signatures", JArr(<<JObj(<<<<"signer", JNum(5)>>, <<"data", JStr("0xs1")>>>>)>>)>>>>) }

\* The record createTransaction returned to the first account, whose text
\* reaches another signer.
ExchangedRecords ==
  { CreateSerializedTx(
      JObj(<<<<"to", JStr("0x1111")>>, <<"value", JStr("1000")>>, <<"data", JStr("0x")>>>>),
      AcctA, 0) }

\* Well-formed JSON that fails the presence checks.
SchemaInvalidValues ==
  { JObj(<<<<"to", JStr("0xabc")>>>>),
    JObj(<<<<"to", JStr("0x1111")>>, <<"value", JNum(0)>>, <<"data", JStr("0x")>>,
           <<"signatures", JArr(<<>>)>>>>),
    JObj(<<<<"to", JStr("0x1111")>>, <<"value", JStr("1")>>, <<"data", JStr("0x")>>,
           <<"signatures", JObj(<<>>)>>>>),
    JNum(5),
    JNull }

\* Texts that are not well-formed JSON: bare words, a trailing comma.
MalformedTexts ==
  { <<TWord("not"), Ws, TWord("json")>>,
    <<P("{"), TStr("to"), P(":"), TStr("0xabc"), P(","), P("}")>> }

BlankTexts == { <<>>, <<Ws, Nl(0), Ws>> }

\* A valid record written compactly, with a repeated key.
CompactText ==
  <<P("{"), TStr("to"), P(":"), TStr("0x2222"), P(","), TStr("value"), P(":"), TStr("5"),
    P(","), TStr("data"), P(":"), TStr("0x"), P(","), TStr("signatures"), P(":"),
    P("["), P("]"), P(","), TStr("to"), P(":"), TStr("0x1111"), P("}")>>

\* What JSON.parse makes of it.
CompactValue == Rec("0x1111", "5", "0x", <<>>)

CanonicalValues ==
  ValidRecords \cup OddRecords \cup SchemaInvalidValues
    \cup UnsignableRecords \cup ExchangedRecords

PasteTexts ==
  { Serialize(x) : x \in CanonicalValues }
    \cup MalformedTexts \cup BlankTexts \cup {CompactText}

(***************************************************************************)
(* State.                                                                   *)
(***************************************************************************)
VARIABLES
  status,            \* App: status
  connectedAddress,  \* App: connectedAddress
  safeAddress,       \* App: safeAddress (the Safe address field)
  serializedTxStr,   \* App: serializedTxStr (the transaction textarea)
  currentTx,         \* App: currentTx, JNull when none
  canSign,           \* App: canSign
  toWorker,          \* messages posted to the worker, not yet handled
  fromWorker,        \* replies posted by the worker, not yet delivered
  calls,             \* handler invocations suspended in an await
  walletAccount,     \* the wallet's active account, "" when it exposes none
  safeNonce,         \* the Safe's current nonce on chain
  svcSigner,         \* SafeService: this.signer.provider is set
  kit,               \* SafeService: this.protocolKit
  ops,               \* number of user and wallet events still to explore
  mounted,           \* App: the component is mounted (onMount ran, its cleanup did not)
  owners,            \* CreateSafe: owners
  threshold,         \* CreateSafe: threshold
  formStatus,        \* CreateSafe: status
  isError,           \* CreateSafe: isError
  dispatched         \* CreateSafe: 'safecreated' events dispatched so far

vars == <<status, connectedAddress, safeAddress, serializedTxStr, currentTx, canSign,
          toWorker, fromWorker, calls, walletAccount, safeNonce, svcSigner, kit, ops,
          mounted, owners, threshold, formStatus, isError, dispatched>>

ui == <<status, connectedAddress, safeAddress, serializedTxStr, currentTx, canSign>>
chan == <<toWorker, fromWorker>>
env == <<walletAccount, safeNonce>>
svc == <<svcSigner, kit>>
form == <<owners, threshold, formStatus, isError, dispatched>>

NoCall == [op |-> "none"]
NoKit == [signer |-> "", init |-> FALSE, safe |-> ""]

\* Error messages of the collaborators.
ExternalErrorMsg == "rejected by the wallet or the Safe kit"
NoKitMsg == "this.protocolKit.createTransaction is not a function"
BadSignerMsg == "Cannot read properties of undefined (reading 'toLowerCase')"

LoadedStatus == "Transaction data loaded"

(***************************************************************************)
(* App: canSignTransaction and the reactive block that stores its result.   *)
(***************************************************************************)
canSignTransaction(tx, addr) ==
  IF tx = JNull \/ addr = "" THEN FALSE
  ELSE ~ \E i \in 1..Len(Get(tx, "signatures").a) :
           ToLowerCase(Get(Get(tx, "signatures").a[i], "signer").s) = ToLowerCase(addr)

\* The promise rejects, and canSign keeps its value, when a signer is not a
\* string.
ReactiveCanSign(tx, addr, old) ==
  IF tx # JNull /\ addr # ""
    THEN IF SignaturesUsable(Get(tx, "signatures").a)
           THEN canSignTransaction(tx, addr) ELSE old
    ELSE FALSE

FreeSlot ==
  CHOOSE i \in 1..MaxCalls :
    calls[i] = NoCall /\ \A j \in 1..(i - 1) : calls[j] # NoCall

HasFreeSlot == \E i \in 1..MaxCalls : calls[i] = NoCall

\* A user or wallet event; the model explores as many as the behaviour
\* starts with.
Event == mounted /\ ops > 0 /\ ops' = ops - 1 /\ UNCHANGED <<mounted, form>>

\* A step of the event loop that is not a user or wallet event: a worker step, a
\* reply delivery or the completion of a pending call.
Continuation == UNCHANGED <<ops, mounted, form>>

\* Texts submitted to the worker whose reply the App has not handled yet.
InFlight == Len(toWorker) + Len(fromWorker)

\* A handler reaches its await.  quiet is history: no text was in flight
\* when the handler started.
Suspend(c) ==
  calls' = [calls EXCEPT ![FreeSlot] = [op |-> c.op, arg |-> c.arg, quiet |-> InFlight = 0]]
Resume(i) == calls' = [calls EXCEPT ![i] = NoCall]

\* CreateSafe component, lines 9-12: one empty owner entry, threshold 1.
FormInit ==
  /\ owners = <<"">>
  /\ threshold = 1
  /\ formStatus = ""
  /\ isError = FALSE
  /\ dispatched = 0

\* The state once onMount has run: lines 348-366, 379-406.  With a safeAddr
\* parameter in the URL, handleConnect is already waiting for connect.
Init ==
  /\ \/ /\ safeAddress = ""
        /\ status = ""
        /\ calls = [i \in 1..MaxCalls |-> NoCall]
     \/ /\ safeAddress = SafeAddr
        /\ status = "Connecting..."
        /\ calls = [i \in 1..MaxCalls |->
                      IF i = 1
                        THEN [op |-> "connect", arg |-> JStr(SafeAddr), quiet |-> TRUE]
                        ELSE NoCall]
  /\ connectedAddress = ""
  /\ serializedTxStr = <<>>
  /\ currentTx = JNull
  /\ canSign = FALSE
  /\ toWorker = <<>>
  /\ fromWorker = <<>>
  /\ walletAccount \in Accounts \cup {""}
  /\ safeNonce = 0
  /\ svcSigner = FALSE
  /\ kit = NoKit
  /\ ops = MaxOps
  /\ mounted = TRUE
  /\ FormInit

(***************************************************************************)
(* App: the Safe address field, handleConnect, handleAccountsChanged.       *)
(***************************************************************************)
SetSafeAddress(s) ==
  /\ Event
  /\ s # safeAddress
  /\ safeAddress' = s
  /\ UNCHANGED <<status, connectedAddress, serializedTxStr, currentTx, canSign>>
  /\ UNCHANGED <<chan, calls, env, svc>>

\* handleConnect with an empty Safe address: lines 454-458, 463-465.
ConnectNoAddress ==
  /\ Event
  /\ safeAddress = ""
  /\ status' = "Connection failed: " \o "Please enter a Safe address"
  /\ UNCHANGED <<connectedAddress, safeAddress, serializedTxStr, currentTx, canSign>>
  /\ UNCHANGED <<chan, calls, env, svc>>

\* handleConnect up to `await safeService.connect(safeAddress)`.
ConnectClick ==
  /\ Event
  /\ safeAddress # ""
  /\ HasFreeSlot
  /\ status' = "Connecting..."
  /\ Suspend([op |-> "connect", arg |-> JStr(safeAddress)])
  /\ UNCHANGED <<connectedAddress, safeAddress, serializedTxStr, currentTx, canSign>>
  /\ UNCHANGED <<chan, env, svc>>

\* handleAccountsChanged([]) : lines 418-420.
AccountsChangedEmpty ==
  /\ Event
  /\ walletAccount # ""
  /\ walletAccount' = ""
  /\ connectedAddress' = ""
  /\ status' = "Wallet disconnected"
  /\ canSign' = ReactiveCanSign(currentTx, "", canSign)
  /\ UNCHANGED <<safeAddress, serializedTxStr, currentTx>>
  /\ UNCHANGED <<chan, calls, safeNonce, svc>>

\* handleAccountsChanged([a]) : lines 421-424, up to the await; nothing
\* happens when the Safe address field is empty.
AccountsChanged(a) ==
  /\ Event
  /\ a # walletAccount
  /\ walletAccount' = a
  /\ IF safeAddress # ""
       THEN /\ HasFreeSlot
            /\ Suspend([op |-> "reconnect", arg |-> JStr(safeAddress)])
       ELSE UNCHANGED calls
  /\ UNCHANGED <<ui, chan, safeNonce, svc>>

\* SafeService.connect followed by getAddress, both succeeding: lines 41-54,
\* 218-220; then lines 461-462 or 425-426.
ConnectOk(i) ==
  /\ Continuation
  /\ calls[i].op \in {"connect", "reconnect"}
  /\ walletAccount # ""
  /\ Resume(i)
  /\ svcSigner' = TRUE
  /\ kit' = [signer |-> walletAccount, init |-> TRUE, safe |-> calls[i].arg.s]
  /\ connectedAddress' = walletAccount
  /\ status' = IF calls[i].op = "connect" THEN "Connected successfully"
                ELSE "Account changed successfully"
  /\ canSign' = ReactiveCanSign(currentTx, walletAccount, canSign)
  /\ UNCHANGED <<safeAddress, serializedTxStr, currentTx>>
  /\ UNCHANGED <<chan, env>>

\* Variant: a failed connect also forgets the connected address.
ConnectFail_Disconnecting(i, walletDone) ==
  /\ Continuation
  /\ calls[i].op \in {"connect", "reconnect"}
  /\ walletDone => svcSigner \/ walletAccount # ""
  /\ ~walletDone => ~svcSigner
  /\ Resume(i)
  /\ svcSigner' = walletDone
  /\ status' = (IF calls[i].op = "connect" THEN "Connection failed: "
                ELSE "Failed to reconnect: ") \o ExternalErrorMsg
  /\ connectedAddress' = ""
  /\ canSign' = ReactiveCanSign(currentTx, "", canSign)
  /\ UNCHANGED <<safeAddress, serializedTxStr, currentTx>>
  /\ UNCHANGED <<chan, env, kit>>

\* Variant: a failed reconnect leaves the connected address.
ConnectFail_KeepAddress(i, walletDone) ==
  /\ Continuation
  /\ calls[i].op \in {"connect", "reconnect"}
  /\ walletDone => svcSigner \/ walletAccount # ""
  /\ ~walletDone => ~svcSigner
  /\ Resume(i)
  /\ svcSigner' = walletDone
  /\ status' = (IF calls[i].op = "connect" THEN "Connection failed: "
                ELSE "Failed to reconnect: ") \o ExternalErrorMsg
  /\ UNCHANGED <<connectedAddress, canSign>>
  /\ UNCHANGED <<safeAddress, serializedTxStr, currentTx>>
  /\ UNCHANGED <<chan, env, kit>>

\* connect throws: in connectWallet (the signer stays unset) or in Safe.init
\* (the signer is set, the kit is not replaced).  Lines 463-465 and 427-430.
ConnectFail(i, walletDone) ==
  /\ Continuation
  /\ calls[i].op \in {"connect", "reconnect"}
  /\ walletDone => svcSigner \/ walletAccount # ""
  /\ ~walletDone => ~svcSigner
  /\ Resume(i)
  /\ svcSigner' = walletDone
  /\ IF calls[i].op = "connect"
       THEN /\ status' = "Connection failed: " \o ExternalErrorMsg
            /\ UNCHANGED <<connectedAddress, canSign>>
       ELSE /\ status' = "Failed to reconnect: " \o ExternalErrorMsg
            /\ connectedAddress' = ""
            /\ canSign' = ReactiveCanSign(currentTx, "", canSign)
  /\ UNCHANGED <<safeAddress, serializedTxStr, currentTx>>
  /\ UNCHANGED <<chan, env, kit>>

(***************************************************************************)
(* App: the transaction field, the worker, and the worker's replies.        *)
(***************************************************************************)
\* The text of the submission made last among those still in flight.
LastInFlight ==
  IF toWorker # <<>> THEN <<toWorker[Len(toWorker)].txData>>
  ELSE IF fromWorker # <<>> THEN <<fromWorker[Len(fromWorker)].of>>
  ELSE <<>>

\* bind:value and handleTransactionDataChange: lines 501-504, 703-706.
\* prev and src are history: the submission still in flight, if any, and the
\* record the text was serialized from, if any.
Submit(text, src) ==
  /\ Event
  /\ connectedAddress # ""
  /\ InFlight < MaxQueue
  /\ serializedTxStr' = text
  /\ toWorker' = Append(toWorker, [txData |-> text, src |-> src, prev |-> LastInFlight])
  /\ UNCHANGED <<status, connectedAddress, safeAddress, currentTx, canSign>>
  /\ UNCHANGED <<fromWorker, calls, env, svc>>

\* The user types or pastes a text.
TypeText(text) == Submit(text, JNull)

\* The text the App emitted for the record it holds goes through the field
\* again (copied, then pasted).
PasteBack ==
  /\ currentTx # JNull
  /\ serializedTxStr = Serialize(currentTx)
  /\ Submit(serializedTxStr, currentTx)

\* Variant: a worker that remembers a failure and answers the next text
\* with it.
WorkerStep_Remembering ==
  /\ Continuation
  /\ toWorker # <<>>
  /\ toWorker' = Tail(toWorker)
  /\ LET m == Head(toWorker)
          before == IF m.prev = <<>> THEN Reply(JNull, JNull) ELSE WorkerOnMessage(m.prev[1])
     IN fromWorker' = Append(fromWorker,
          [of |-> m.txData, src |-> m.src, prev |-> m.prev,
           msg |-> IF Truthy(before.error) THEN before ELSE WorkerOnMessage(m.txData)])
  /\ UNCHANGED <<ui, calls, env, svc>>

\* txWorker.ts : the worker handles its oldest message.
WorkerStep ==
  /\ Continuation
  /\ toWorker # <<>>
  /\ toWorker' = Tail(toWorker)
  /\ fromWorker' = Append(fromWorker,
        [of |-> Head(toWorker).txData, src |-> Head(toWorker).src,
         prev |-> Head(toWorker).prev, msg |-> WorkerOnMessage(Head(toWorker).txData)])
  /\ UNCHANGED <<ui, calls, env, svc>>

\* Variant: an error reply leaves the record in place.
DeliverReply_KeepTx ==
  /\ Continuation
  /\ fromWorker # <<>>
  /\ fromWorker' = Tail(fromWorker)
  /\ LET error == Head(fromWorker).msg.error
          tx == Head(fromWorker).msg.tx
     IN IF Truthy(error)
          THEN /\ status' = error.s
               /\ currentTx' = currentTx
          ELSE /\ currentTx' = tx
               /\ status' = IF Truthy(tx) THEN LoadedStatus ELSE status
  /\ canSign' = ReactiveCanSign(currentTx', connectedAddress, canSign)
  /\ UNCHANGED <<connectedAddress, safeAddress, serializedTxStr>>
  /\ UNCHANGED <<toWorker, calls, env, svc>>

\* Variant: the reply is written into the record the App holds, which a
\* handler suspended on that record holds too.
DeliverReply_InPlace ==
  /\ Continuation
  /\ fromWorker # <<>>
  /\ fromWorker' = Tail(fromWorker)
  /\ LET error == Head(fromWorker).msg.error
          tx == Head(fromWorker).msg.tx
     IN IF Truthy(error)
          THEN /\ status' = error.s
               /\ currentTx' = JNull
               /\ UNCHANGED calls
          ELSE /\ currentTx' = tx
               /\ status' = IF Truthy(tx) THEN LoadedStatus ELSE status
               /\ calls' = [i \in 1..MaxCalls |->
                     IF /\ calls[i] # NoCall /\ calls[i].op \in {"sign", "execute"}
                        /\ calls[i].arg = currentTx /\ Truthy(tx)
                       THEN [calls[i] EXCEPT !.arg = tx] ELSE calls[i]]
  /\ canSign' = ReactiveCanSign(currentTx', connectedAddress, canSign)
  /\ UNCHANGED <<connectedAddress, safeAddress, serializedTxStr>>
  /\ UNCHANGED <<toWorker, env, svc>>

\* txWorker.onmessage in the App: lines 386-397.
DeliverReply ==
  /\ Continuation
  /\ fromWorker # <<>>
  /\ fromWorker' = Tail(fromWorker)
  /\ LET error == Head(fromWorker).msg.error
          tx == Head(fromWorker).msg.tx
     IN IF Truthy(error)
          THEN /\ status' = error.s
               /\ currentTx' = JNull
          ELSE /\ currentTx' = tx
               /\ status' = IF Truthy(tx) THEN LoadedStatus ELSE status
  /\ canSign' = ReactiveCanSign(currentTx', connectedAddress, canSign)
  /\ UNCHANGED <<connectedAddress, safeAddress, serializedTxStr>>
  /\ UNCHANGED <<toWorker, calls, env, svc>>

(***************************************************************************)
(* App: handleCreateTransaction.                                            *)
(***************************************************************************)
Recipients == {"", "nope", "0x1111"}
Payloads == {"0x", "abcd", "0xabcd"}

\* What the user types into the ETH amount field.
EthInputs == {"", "0.000000000000001", "-0.000000000000000001", "abc"}

\* ethers.utils.parseEther(input).toString() on the amounts of the model;
\* "throws" when parseEther throws.
ParseEther(input) ==
  CASE input = "0.000000000000001" -> "1000"
    [] input = "-0.000000000000000001" -> "-1"
    [] OTHER -> "throws"

\* handleEthValueChange: lines 436-450, the weiValue it leaves.
handleEthValueChange(input) ==
  IF input = "" THEN "0"
  ELSE IF ParseEther(input) = "throws" THEN "0"
  ELSE ParseEther(input)

WeiValues == { handleEthValueChange(e) : e \in EthInputs }

\* ethers.utils.isAddress on the recipients of the model.
IsAddress(s) == s = "0x1111"

\* ethers.BigNumber.from(weiValue).gte(0) on the values of the model.
NonNegative(w) == w # "-1"

\* s.startsWith('0x') on the strings of the model.
StartsWith0x(s) == s \in {"0x", "0xabcd", "0x1111"}

\* transactionPayload.startsWith('0x') ? transactionPayload : '0x' + transactionPayload
NormalizePayload(p) == IF StartsWith0x(p) THEN p ELSE "0x" \o p

\* lines 471-481: the checks before any call.
CreateRejected(to, wei) ==
  /\ Event
  /\ connectedAddress # ""
  /\ to = "" \/ ~IsAddress(to) \/ ~NonNegative(wei)
  /\ status' = "Transaction creation failed: " \o
       (IF to = "" THEN "Please enter a recipient address"
        ELSE IF ~IsAddress(to) THEN "Invalid recipient address"
        ELSE "Value must be a non-negative amount")
  /\ UNCHANGED <<connectedAddress, safeAddress, serializedTxStr, currentTx, canSign>>
  /\ UNCHANGED <<chan, calls, env, svc>>

\* Variant: the handler calls the service without checking the form.
CreateClick_Unchecked(to, wei, payload) ==
  /\ Event
  /\ connectedAddress # ""
  /\ HasFreeSlot
  /\ status' = "Creating transaction..."
  /\ Suspend([op |-> "create",
              arg |-> JObj(<<<<"to", JStr(to)>>, <<"value", JStr(wei)>>,
                             <<"data", JStr(NormalizePayload(payload))>>>>)])
  /\ UNCHANGED <<connectedAddress, safeAddress, serializedTxStr, currentTx, canSign>>
  /\ UNCHANGED <<chan, env, svc>>

\* lines 483-491, up to the await.
CreateClick(to, wei, payload) ==
  /\ Event
  /\ connectedAddress # ""
  /\ to # "" /\ IsAddress(to) /\ NonNegative(wei)
  /\ HasFreeSlot
  /\ status' = "Creating transaction..."
  /\ Suspend([op |-> "create",
              arg |-> JObj(<<<<"to", JStr(to)>>, <<"value", JStr(wei)>>,
                             <<"data", JStr(NormalizePayload(payload))>>>>)])
  /\ UNCHANGED <<connectedAddress, safeAddress, serializedTxStr, currentTx, canSign>>
  /\ UNCHANGED <<chan, env, svc>>

\* createTransaction resolves: lines 492-494.
CreateOk(i) ==
  /\ Continuation
  /\ calls[i].op = "create"
  /\ kit.init
  /\ Resume(i)
  /\ LET out == CreateSerializedTx(calls[i].arg, kit.signer, safeNonce) IN
       /\ currentTx' = out
       /\ serializedTxStr' = Serialize(out)
       /\ canSign' = ReactiveCanSign(out, connectedAddress, canSign)
  /\ status' = "Transaction created! Share the transaction data below with other signers"
  /\ UNCHANGED <<connectedAddress, safeAddress>>
  /\ UNCHANGED <<chan, env, svc>>

\* The message of the error a SafeService operation throws on a record.
ThrownMsg(serializedTx, needsSigs) ==
  IF ~kit.init THEN {NoKitMsg}
  ELSE IF needsSigs /\ ~CanAttach(serializedTx) THEN {BadSignerMsg}
  ELSE {ExternalErrorMsg}

\* createTransaction throws: lines 128-131, 495-498.
CreateFail(i) ==
  /\ Continuation
  /\ calls[i].op = "create"
  /\ Resume(i)
  /\ \E msg \in ThrownMsg(calls[i].arg, FALSE) :
       status' = "Transaction creation failed: " \o msg
  /\ UNCHANGED <<connectedAddress, safeAddress, serializedTxStr, currentTx, canSign>>
  /\ UNCHANGED <<chan, env, svc>>

(***************************************************************************)
(* App: handleAddSignature (button enabled by currentTx && canSign).        *)
(***************************************************************************)
\* lines 526-531, up to the await; the argument is the record held now.
SignClick ==
  /\ Event
  /\ connectedAddress # ""
  /\ currentTx # JNull
  /\ canSign
  /\ HasFreeSlot
  /\ status' = "Adding signature..."
  /\ Suspend([op |-> "sign", arg |-> currentTx])
  /\ UNCHANGED <<connectedAddress, safeAddress, serializedTxStr, currentTx, canSign>>
  /\ UNCHANGED <<chan, env, svc>>

\* addSignature resolves: lines 532-534.
SignOk(i) ==
  /\ Continuation
  /\ calls[i].op = "sign"
  /\ kit.init
  /\ CanAttach(calls[i].arg)
  /\ Resume(i)
  /\ LET out == AddSignatureResult(calls[i].arg, kit.signer, safeNonce) IN
       /\ currentTx' = out
       /\ serializedTxStr' = Serialize(out)
       /\ canSign' = ReactiveCanSign(out, connectedAddress, canSign)
  /\ status' = "Signature added successfully!"
  /\ UNCHANGED <<connectedAddress, safeAddress>>
  /\ UNCHANGED <<chan, env, svc>>

\* Variant: the catch block also drops the record.
SignFail_Clearing(i) ==
  /\ Continuation
  /\ calls[i].op = "sign"
  /\ Resume(i)
  /\ \E msg \in ThrownMsg(calls[i].arg, TRUE) :
       status' = "Failed to add signature: " \o msg
  /\ currentTx' = JNull
  /\ serializedTxStr' = <<>>
  /\ canSign' = FALSE
  /\ UNCHANGED <<connectedAddress, safeAddress>>
  /\ UNCHANGED <<chan, env, svc>>

\* Variant: the catch block reports the failure and signs again.
SignFail_Retrying(i) ==
  /\ Continuation
  /\ calls[i].op = "sign"
  /\ UNCHANGED calls
  /\ \E msg \in ThrownMsg(calls[i].arg, TRUE) :
       status' = "Failed to add signature: " \o msg
  /\ UNCHANGED <<connectedAddress, safeAddress, serializedTxStr, currentTx, canSign>>
  /\ UNCHANGED <<chan, env, svc>>

\* addSignature throws: lines 179-182, 535-538.
SignFail(i) ==
  /\ Continuation
  /\ calls[i].op = "sign"
  /\ Resume(i)
  /\ \E msg \in ThrownMsg(calls[i].arg, TRUE) :
       status' = "Failed to add signature: " \o msg
  /\ UNCHANGED <<connectedAddress, safeAddress, serializedTxStr, currentTx, canSign>>
  /\ UNCHANGED <<chan, env, svc>>

(***************************************************************************)
(* App: handleExecuteTransaction (button enabled by currentTx).             *)
(***************************************************************************)
\* Variant: the handler starts nothing for a record without signatures.
ExecuteClick_Threshold ==
  /\ Event
  /\ connectedAddress # ""
  /\ currentTx # JNull
  /\ Len(Get(currentTx, "signatures").a) >= 1
  /\ HasFreeSlot
  /\ status' = "Executing transaction..."
  /\ Suspend([op |-> "execute", arg |-> currentTx])
  /\ UNCHANGED <<connectedAddress, safeAddress, serializedTxStr, currentTx, canSign>>
  /\ UNCHANGED <<chan, env, svc>>

\* lines 543-548, up to the await.
ExecuteClick ==
  /\ Event
  /\ connectedAddress # ""
  /\ currentTx # JNull
  /\ HasFreeSlot
  /\ status' = "Executing transaction..."
  /\ Suspend([op |-> "execute", arg |-> currentTx])
  /\ UNCHANGED <<connectedAddress, safeAddress, serializedTxStr, currentTx, canSign>>
  /\ UNCHANGED <<chan, env, svc>>

\* executeTransaction resolves: the Safe accepted the transaction and its
\* nonce advances.  Line 549.
ExecuteOk(i) ==
  /\ Continuation
  /\ calls[i].op = "execute"
  /\ kit.init
  /\ CanAttach(calls[i].arg)
  /\ safeNonce < MaxNonce
  /\ Resume(i)
  /\ safeNonce' = safeNonce + 1
  /\ status' = "Transaction executed! Hash: " \o TxHash(RebuildSafeTx(calls[i].arg, safeNonce))
  /\ UNCHANGED <<connectedAddress, safeAddress, serializedTxStr, currentTx, canSign>>
  /\ UNCHANGED <<chan, walletAccount, svc>>

\* executeTransaction throws: lines 212-215, 550-553.
ExecuteFail(i) ==
  /\ Continuation
  /\ calls[i].op = "execute"
  /\ Resume(i)
  /\ \E msg \in ThrownMsg(calls[i].arg, TRUE) :
       status' = "Transaction execution failed: " \o msg
  /\ UNCHANGED <<connectedAddress, safeAddress, serializedTxStr, currentTx, canSign>>
  /\ UNCHANGED <<chan, env, svc>>

(***************************************************************************)
(* The specification.                                                       *)
(***************************************************************************)
(***************************************************************************)
(* App: the cleanup function returned by onMount.                           *)
(***************************************************************************)
\* Variant: the worker is left running and its replies are still delivered.
Teardown_KeepsWorker ==
  /\ mounted
  /\ ops > 0
  /\ ops' = ops - 1
  /\ mounted' = FALSE
  /\ UNCHANGED <<ui, chan, calls, env, svc, form>>

\* Lines 408-414: the accountsChanged listener is removed and the worker is
\* terminated, which discards the messages it has not handled and empties
\* the queue of replies not yet delivered.  Handlers suspended in an await
\* are not touched.
Teardown ==
  /\ mounted
  /\ ops > 0
  /\ ops' = ops - 1
  /\ mounted' = FALSE
  /\ toWorker' = <<>>
  /\ fromWorker' = <<>>
  /\ UNCHANGED <<ui, calls, env, svc, form>>

(***************************************************************************)
(* App: handleAddSignature and handleExecuteTransaction invoked while no    *)
(* record is held (lines 526-528, 543-545).  The markup disables both       *)
(* buttons then, so these are the handlers called as functions.             *)
(***************************************************************************)
NoTxMsg == "Please load a transaction first"

\* Variant: the handler has no test of currentTx and calls the service.
handleAddSignatureNoTx_Calling ==
  /\ Event
  /\ currentTx = JNull
  /\ HasFreeSlot
  /\ status' = "Adding signature..."
  /\ Suspend([op |-> "sign", arg |-> currentTx])
  /\ UNCHANGED <<connectedAddress, safeAddress, serializedTxStr, currentTx, canSign>>
  /\ UNCHANGED <<chan, env, svc>>

handleAddSignatureNoTx ==
  /\ Event
  /\ currentTx = JNull
  /\ status' = "Failed to add signature: " \o NoTxMsg
  /\ UNCHANGED <<connectedAddress, safeAddress, serializedTxStr, currentTx, canSign>>
  /\ UNCHANGED <<chan, calls, env, svc>>

handleExecuteTransactionNoTx ==
  /\ Event
  /\ currentTx = JNull
  /\ status' = "Transaction execution failed: " \o NoTxMsg
  /\ UNCHANGED <<connectedAddress, safeAddress, serializedTxStr, currentTx, canSign>>
  /\ UNCHANGED <<chan, calls, env, svc>>

\* The wallet switches account once the listener is removed: no handler runs.
AccountsChangedUnheard(a) ==
  /\ ~mounted
  /\ ops > 0
  /\ ops' = ops - 1
  /\ a # walletAccount
  /\ walletAccount' = a
  /\ UNCHANGED <<ui, chan, calls, safeNonce, svc, mounted, form>>

(***************************************************************************)
(* The CreateSafe component: first <script> of CreateSafe.svelte and its    *)
(* markup, with SafeService.createSafe.                                     *)
(***************************************************************************)
\* What the user types in an owner field, and in the threshold field (a
\* number input whose min and max attributes do not restrict typing).
OwnerInputs == {"", " ", "0xAAaa", " 0xBBbb"}
ThresholdInputs == 0..(MaxOwners + 1)

\* String.prototype.trim on the owner inputs.
Trim(s) == IF s = " " THEN "" ELSE IF s = " 0xBBbb" THEN "0xBBbb" ELSE s

\* owners.filter(owner => owner.trim() !== '')
ValidOwners(os) == SelectSeq(os, LAMBDA o : Trim(o) # "")

\* owners.filter((_, i) => i !== index)
RemoveAt(os, index) ==
  [j \in 1..(Len(os) - 1) |-> IF j < index THEN os[j] ELSE os[j + 1]]

FormEvent == ops > 0 /\ ops' = ops - 1 /\ UNCHANGED mounted

FormErrNoOwner == "At least one owner address is required"
FormErrThreshold == "Threshold cannot be greater than number of owners"
FormErrNoWallet == "Wallet not connected. Please connect wallet first."
FormCreating == "Creating Safe..."
FormCreated == "Safe created successfully!"

addOwner ==
  /\ FormEvent
  /\ Len(owners) < MaxOwners
  /\ owners' = Append(owners, "")
  /\ UNCHANGED <<threshold, formStatus, isError, dispatched>>
  /\ UNCHANGED <<ui, chan, calls, env, svc>>

\* Variant: the entry is removed and the threshold is left alone.
removeOwner_KeepThreshold(index) ==
  /\ FormEvent
  /\ Len(owners) > 1
  /\ index \in 1..Len(owners)
  /\ owners' = RemoveAt(owners, index)
  /\ UNCHANGED <<threshold, formStatus, isError, dispatched>>
  /\ UNCHANGED <<ui, chan, calls, env, svc>>

\* The remove button is rendered only while owners.length > 1 (line 71).
removeOwner(index) ==
  /\ FormEvent
  /\ Len(owners) > 1
  /\ index \in 1..Len(owners)
  /\ owners' = RemoveAt(owners, index)
  /\ threshold' = IF threshold > Len(owners') THEN Len(owners') ELSE threshold
  /\ UNCHANGED <<formStatus, isError, dispatched>>
  /\ UNCHANGED <<ui, chan, calls, env, svc>>

updateOwner(index, value) ==
  /\ FormEvent
  /\ index \in 1..Len(owners)
  /\ owners[index] # value
  /\ owners' = [owners EXCEPT ![index] = value]
  /\ UNCHANGED <<threshold, formStatus, isError, dispatched>>
  /\ UNCHANGED <<ui, chan, calls, env, svc>>

\* bind:value={threshold} on the number input, lines 89-95.
SetThreshold(n) ==
  /\ FormEvent
  /\ n # threshold
  /\ threshold' = n
  /\ UNCHANGED <<owners, formStatus, isError, dispatched>>
  /\ UNCHANGED <<ui, chan, calls, env, svc>>

\* Variant: createSafe does not look at the signer.
CreateSafeError_NoWalletCheck(os, th, signerSet) ==
  IF Len(ValidOwners(os)) = 0 THEN FormErrNoOwner
  ELSE IF th > Len(ValidOwners(os)) THEN FormErrThreshold
  ELSE ""

\* The checks of handleCreateSafe, lines 33-40, followed by the first
\* statement of SafeService.createSafe, line 57: the error thrown, or "" when
\* the deployment is started.
CreateSafeError(os, th, signerSet) ==
  IF Len(ValidOwners(os)) = 0 THEN FormErrNoOwner
  ELSE IF th > Len(ValidOwners(os)) THEN FormErrThreshold
  ELSE IF ~signerSet THEN FormErrNoWallet
  ELSE ""

\* handleCreateSafe up to the await inside createSafe (lines 31-44, 56-67); a
\* throw before it is caught in the same turn (lines 47-50).  The button is
\* disabled while every owner entry is blank (lines 103-104).
handleCreateSafe ==
  /\ FormEvent
  /\ \E j \in 1..Len(owners) : Trim(owners[j]) # ""
  /\ IF CreateSafeError(owners, threshold, svcSigner) # ""
       THEN /\ isError' = TRUE
            /\ formStatus' = CreateSafeError(owners, threshold, svcSigner)
            /\ UNCHANGED calls
       ELSE /\ HasFreeSlot
            /\ isError' = FALSE
            /\ formStatus' = FormCreating
            /\ Suspend([op |-> "createSafe",
                        arg |-> [owners |-> ValidOwners(owners), threshold |-> threshold]])
  /\ UNCHANGED <<owners, threshold, dispatched>>
  /\ UNCHANGED <<ui, chan, env, svc>>

\* createSafe resolves: the deployment transaction was sent and mined (lines
\* 67-86); then lines 45-46.
CreateSafeOk(i) ==
  /\ UNCHANGED <<ops, mounted>>
  /\ calls[i].op = "createSafe"
  /\ Resume(i)
  /\ formStatus' = FormCreated
  /\ dispatched' = dispatched + 1
  /\ UNCHANGED <<owners, threshold, isError>>
  /\ UNCHANGED <<ui, chan, env, svc>>

\* createSafe rejects: the kit refuses the configuration, the wallet refuses
\* the transaction or the transaction fails; then lines 47-50.
CreateSafeFail(i) ==
  /\ UNCHANGED <<ops, mounted>>
  /\ calls[i].op = "createSafe"
  /\ Resume(i)
  /\ isError' = TRUE
  /\ formStatus' = ExternalErrorMsg
  /\ UNCHANGED <<owners, threshold, dispatched>>
  /\ UNCHANGED <<ui, chan, env, svc>>

Next ==
  \/ \E s \in {"", SafeAddr} : SetSafeAddress(s)
  \/ ConnectNoAddress
  \/ ConnectClick
  \/ AccountsChangedEmpty
  \/ \E a \in Accounts : AccountsChanged(a)
  \/ \E i \in 1..MaxCalls : ConnectOk(i)
  \/ \E i \in 1..MaxCalls : \E w \in BOOLEAN : ConnectFail(i, w)
  \/ \E text \in PasteTexts : TypeText(text)
  \/ PasteBack
  \/ WorkerStep
  \/ DeliverReply
  \/ \E to \in Recipients : \E wei \in WeiValues : CreateRejected(to, wei)
  \/ \E to \in Recipients : \E wei \in WeiValues : \E p \in Payloads : CreateClick(to, wei, p)
  \/ \E i \in 1..MaxCalls : CreateOk(i)
  \/ \E i \in 1..MaxCalls : CreateFail(i)
  \/ SignClick
  \/ \E i \in 1..MaxCalls : SignOk(i)
  \/ \E i \in 1..MaxCalls : SignFail(i)
  \/ ExecuteClick
  \/ \E i \in 1..MaxCalls : ExecuteOk(i)
  \/ \E i \in 1..MaxCalls : ExecuteFail(i)

Spec == Init /\ [][Next]_vars

(***************************************************************************)
(* The same App followed over more events, on fewer inputs: it starts with  *)
(* the Safe address in the URL and a wallet account, and the user loads     *)
(* one of two texts, creates one transaction, signs, executes and switches  *)
(* account.                                                                 *)
(***************************************************************************)
LongTexts == { Serialize(r) : r \in ExchangedRecords } \cup {CompactText}

InitLong ==
  /\ safeAddress = SafeAddr
  /\ status = "Connecting..."
  /\ calls = [i \in 1..MaxCalls |->
                IF i = 1
                  THEN [op |-> "connect", arg |-> JStr(SafeAddr), quiet |-> TRUE]
                  ELSE NoCall]
  /\ connectedAddress = ""
  /\ serializedTxStr = <<>>
  /\ currentTx = JNull
  /\ canSign = FALSE
  /\ toWorker = <<>>
  /\ fromWorker = <<>>
  /\ walletAccount \in Accounts
  /\ safeNonce = 0
  /\ svcSigner = FALSE
  /\ kit = NoKit
  /\ ops = MaxLongOps
  /\ mounted = TRUE
  /\ FormInit

NextLong ==
  \/ \E a \in Accounts : AccountsChanged(a)
  \/ \E i \in 1..MaxCalls : ConnectOk(i)
  \/ \E text \in LongTexts : TypeText(text)
  \/ PasteBack
  \/ WorkerStep
  \/ DeliverReply
  \/ CreateClick("0x1111", "1000", "0x")
  \/ \E i \in 1..MaxCalls : CreateOk(i)
  \/ \E i \in 1..MaxCalls : CreateFail(i)
  \/ SignClick
  \/ \E i \in 1..MaxCalls : SignOk(i)
  \/ \E i \in 1..MaxCalls : SignFail(i)
  \/ ExecuteClick
  \/ \E i \in 1..MaxCalls : ExecuteOk(i)
  \/ \E i \in 1..MaxCalls : ExecuteFail(i)
  \/ Teardown
  \/ \E a \in Accounts : AccountsChangedUnheard(a)

SpecLong == InitLong /\ [][NextLong]_vars

(***************************************************************************)
(* The CreateSafe form next to the App's connection handling: both use the  *)
(* same SafeService.                                                        *)
(***************************************************************************)
InitForm ==
  /\ \/ /\ safeAddress = ""
        /\ status = ""
        /\ calls = [i \in 1..MaxCalls |-> NoCall]
     \/ /\ safeAddress = SafeAddr
        /\ status = "Connecting..."
        /\ calls = [i \in 1..MaxCalls |->
                      IF i = 1
                        THEN [op |-> "connect", arg |-> JStr(SafeAddr), quiet |-> TRUE]
                        ELSE NoCall]
  /\ connectedAddress = ""
  /\ serializedTxStr = <<>>
  /\ currentTx = JNull
  /\ canSign = FALSE
  /\ toWorker = <<>>
  /\ fromWorker = <<>>
  /\ walletAccount \in Accounts \cup {""}
  /\ safeNonce = 0
  /\ svcSigner = FALSE
  /\ kit = NoKit
  /\ ops = MaxFormOps
  /\ mounted = TRUE
  /\ FormInit

NextForm ==
  \/ \E s \in {"", SafeAddr} : SetSafeAddress(s)
  \/ ConnectNoAddress
  \/ ConnectClick
  \/ \E i \in 1..MaxCalls : ConnectOk(i)
  \/ \E i \in 1..MaxCalls : \E w \in BOOLEAN : ConnectFail(i, w)
  \/ addOwner
  \/ \E j \in 1..MaxOwners : removeOwner(j)
  \/ \E j \in 1..MaxOwners : \E v \in OwnerInputs : updateOwner(j, v)
  \/ \E n \in ThresholdInputs : SetThreshold(n)
  \/ handleCreateSafe
  \/ \E i \in 1..MaxCalls : CreateSafeOk(i)
  \/ \E i \in 1..MaxCalls : CreateSafeFail(i)

SpecForm == InitForm /\ [][NextForm]_vars

(***************************************************************************)
(* The App with handleAddSignature and handleExecuteTransaction also        *)
(* called while no record is held.                                          *)
(***************************************************************************)
InitDirect ==
  /\ safeAddress = SafeAddr
  /\ status = "Connecting..."
  /\ calls = [i \in 1..MaxCalls |->
                IF i = 1
                  THEN [op |-> "connect", arg |-> JStr(SafeAddr), quiet |-> TRUE]
                  ELSE NoCall]
  /\ connectedAddress = ""
  /\ serializedTxStr = <<>>
  /\ currentTx = JNull
  /\ canSign = FALSE
  /\ toWorker = <<>>
  /\ fromWorker = <<>>
  /\ walletAccount \in Accounts
  /\ safeNonce = 0
  /\ svcSigner = FALSE
  /\ kit = NoKit
  /\ ops = MaxDirectOps
  /\ mounted = TRUE
  /\ FormInit

NextDirect ==
  \/ \E i \in 1..MaxCalls : ConnectOk(i)
  \/ \E text \in LongTexts \cup MalformedTexts : TypeText(text)
  \/ WorkerStep
  \/ DeliverReply
  \/ handleAddSignatureNoTx
  \/ SignClick
  \/ \E i \in 1..MaxCalls : SignOk(i)
  \/ \E i \in 1..MaxCalls : SignFail(i)
  \/ handleExecuteTransactionNoTx
  \/ ExecuteClick
  \/ \E i \in 1..MaxCalls : ExecuteOk(i)
  \/ \E i \in 1..MaxCalls : ExecuteFail(i)

SpecDirect == InitDirect /\ [][NextDirect]_vars

(***************************************************************************)
(* Vocabulary of the properties.                                            *)
(***************************************************************************)
Sigs(tx) == Get(tx, "signatures").a

SignerOf(sig) == Get(sig, "signer").s

\* The signers of a record, in order, ignoring letter case.
Keys(tx) == [k \in 1..Len(Sigs(tx)) |-> ToLowerCase(SignerOf(Sigs(tx)[k]))]

KeySet(tx) == { Keys(tx)[k] : k \in 1..Len(Sigs(tx)) }

DistinctSigners(tx) ==
  \A j, k \in 1..Len(Sigs(tx)) : j # k => Keys(tx)[j] # Keys(tx)[k]

SameTxFields(r, out) ==
  /\ Get(out, "to") = Get(r, "to")
  /\ Get(out, "value") = Get(r, "value")
  /\ Get(out, "data") = Get(r, "data")
  /\ Get(out, "nonce") = Get(r, "nonce")

\* A record of the declared type SerializedSafeTransaction with non-empty
\* to, value and data.
IsRecord(r) ==
  /\ IsObj(r)
  /\ \A f \in {"to", "value", "data"} : IsStr(Get(r, f)) /\ Get(r, f).s # ""
  /\ IsArr(Get(r, "signatures"))
  /\ \A k \in 1..Len(Sigs(r)) :
       IsStr(Get(Sigs(r)[k], "signer")) /\ IsStr(Get(Sigs(r)[k], "data"))
  /\ Get(r, "nonce").t \in {"num", "undef"}

\* Steps: a suspended handleAddSignature or handleExecuteTransaction resumes.
SignCompleted(i) ==
  calls[i].op = "sign" /\ calls'[i] = NoCall /\ status' = "Signature added successfully!"

SignFailed(i) ==
  calls[i].op = "sign" /\ calls'[i] = NoCall /\ status' # "Signature added successfully!"

ExecuteCompleted(i) ==
  /\ calls[i].op = "execute" /\ calls'[i] = NoCall
  /\ \E n \in 0..MaxNonce :
       status' = "Transaction executed! Hash: " \o TxHash(RebuildSafeTx(calls[i].arg, n))

\* Step: the App handles the worker's oldest reply.
Delivered == fromWorker # <<>> /\ fromWorker' = Tail(fromWorker)

ParseErrorMsgs == {SyntaxErrorMsg, TypeErrorMsg, InvalidFormatMsg}

CanonicalTx(r) ==
  TxData(Get(r, "to"), Get(r, "value"), Get(r, "data"), Get(r, "nonce").n)

\* C2 as stated: for a record that carries a nonce, the signature a completed
\* sign adds is over the record's (to, value, data, nonce), and the hash of an
\* executed transaction is that of the record's (to, value, data, nonce).
C2_AsClaimed ==
  [][\A i \in 1..MaxCalls :
       /\ (SignCompleted(i) /\ Get(calls[i].arg, "nonce").t = "num")
            => \E k \in 1..Len(Sigs(currentTx')) :
                 /\ SignerOf(Sigs(currentTx')[k]) = ToLowerCase(kit.signer)
                 /\ Get(Sigs(currentTx')[k], "data")
                      = SignatureOf(kit.signer, CanonicalTx(calls[i].arg))
       /\ (ExecuteCompleted(i) /\ Get(calls[i].arg, "nonce").t = "num")
            => status' = "Transaction executed! Hash: " \o TxHash(CanonicalTx(calls[i].arg))]_vars

\* Position of a signer's first entry in r, Len + 1 when it has none.
FirstIdx(r, key) ==
  IF key \in KeySet(r)
    THEN CHOOSE k \in 1..Len(Sigs(r)) :
           Keys(r)[k] = key /\ \A j \in 1..(k - 1) : Keys(r)[j] # key
    ELSE Len(Sigs(r)) + 1

\* Data of a signer's last entry in r.
LastData(r, key) ==
  LET k == CHOOSE k \in 1..Len(Sigs(r)) :
             Keys(r)[k] = key /\ \A j \in (k + 1)..Len(Sigs(r)) : Keys(r)[j] # key
  IN Get(Sigs(r)[k], "data")

C6_FailedSignLeavesRecord ==
  [][\A i \in 1..MaxCalls :
       SignFailed(i)
       => /\ currentTx' = currentTx
          /\ serializedTxStr' = serializedTxStr
          /\ UNCHANGED <<connectedAddress, safeAddress, canSign>>]_vars

\* A sign has failed while a record with a signature is held.
C6_Witness ==
  /\ status = "Failed to add signature: " \o ExternalErrorMsg
  /\ currentTx # JNull
  /\ Len(Sigs(currentTx)) >= 1
  /\ \A i \in 1..MaxCalls : calls[i] = NoCall

(***************************************************************************)
(* Properties of parsing.                                                   *)
(***************************************************************************)
\* The status the delivery of a reply writes, "" when it writes none.
StatusOf(msg) ==
  IF Truthy(msg.error) THEN msg.error.s
  ELSE IF Truthy(msg.tx) THEN LoadedStatus
  ELSE ""

\* C3 as stated: when the later of two submissions that were in flight
\* together is delivered and nothing is in flight any more, the current
\* transaction and the status are those of the later submission's outcome,
\* and the status is not the one the earlier submission's outcome wrote.
C3_AsClaimed ==
  [][( /\ Delivered
       /\ Head(fromWorker).prev # <<>>
       /\ toWorker = <<>>
       /\ fromWorker' = <<>> )
     => LET later == Head(fromWorker).msg
            earlier == WorkerOnMessage(Head(fromWorker).prev[1])
        IN /\ currentTx' = later.tx
           /\ StatusOf(later) # "" => status' = StatusOf(later)
           /\ (StatusOf(later) = "" /\ StatusOf(earlier) # "")
                => status' # StatusOf(earlier)]_vars

C7_AsClaimed ==
  \A k \in 1..Len(fromWorker) :
    \A x \in SchemaInvalidValues :
      fromWorker[k].of = Serialize(x)
        => fromWorker[k].msg = Reply(JStr(InvalidFormatMsg), JNull)

\* C8: the reply to a text that is not blank and not well-formed JSON
\* carries the JSON parser's message and no record, and on its delivery the
\* App holds no transaction and shows the message as status.
C8_MalformedRejected ==
  [][(Delivered /\ Head(fromWorker).of \in MalformedTexts)
     => /\ Head(fromWorker).msg = Reply(JStr(SyntaxErrorMsg), JNull)
        /\ currentTx' = JNull
        /\ status' = SyntaxErrorMsg]_vars

\* A malformed text is in the field and its reply has been delivered.
C8_Witness ==
  /\ serializedTxStr \in MalformedTexts
  /\ toWorker = <<>> /\ fromWorker = <<>>
  /\ status = SyntaxErrorMsg
  /\ currentTx = JNull

\* C9 as stated: the reply to a blank text is (null, null), and on its
\* delivery the App holds no transaction and shows no parse error.
C9_AsClaimed ==
  [][(Delivered /\ IsBlank(Head(fromWorker).of))
     => /\ Head(fromWorker).msg = Reply(JNull, JNull)
        /\ currentTx' = JNull
        /\ status' \notin ParseErrorMsgs]_vars

\* C10: the reply to a well-formed text that passes the presence checks
\* carries the value the text denotes as it is: unknown fields, field order,
\* values of other types, malformed contents and repeated signers included.
C10_ReplyIsParsedValue ==
  \A k \in 1..Len(fromWorker) :
    /\ \A x \in ValidRecords \cup OddRecords :
         fromWorker[k].of = Serialize(x) => fromWorker[k].msg = Reply(JNull, x)
    /\ fromWorker[k].of = CompactText => fromWorker[k].msg = Reply(JNull, CompactValue)

\* A reply is waiting for the text of the object with an unknown field.
C10_Witness ==
  \E k \in 1..Len(fromWorker) :
    /\ \E x \in OddRecords : fromWorker[k].of = Serialize(x)
    /\ Get(fromWorker[k].msg.tx, "memo") = JStr("hi")

\* Step: the worker takes its oldest message.
Handled == toWorker # <<>> /\ toWorker' = Tail(toWorker)

\* C11: the worker answers each message it takes with exactly one reply,
\* replies are produced by nothing else, every reply has no error or no
\* record, and the reply to a text is the same whatever was submitted
\* before it.
C11_ParserStateless ==
  [][/\ Handled
          => /\ Len(fromWorker') = Len(fromWorker) + 1
             /\ SubSeq(fromWorker', 1, Len(fromWorker)) = fromWorker
             /\ fromWorker'[Len(fromWorker')].of = Head(toWorker).txData
     /\ Len(fromWorker') > Len(fromWorker) => Handled
     /\ \A k \in 1..Len(fromWorker') :
          LET e == fromWorker'[k] IN
            /\ e.msg.error = JNull \/ e.msg.tx = JNull
            /\ e.msg = WorkerOnMessage(e.of)
            /\ \A j \in 1..Len(fromWorker') :
                 fromWorker'[j].of = e.of => fromWorker'[j].msg = e.msg]_vars

\* A record's text has been answered right after a text that was rejected.
C11_Witness ==
  \E k \in 1..Len(fromWorker) :
    /\ fromWorker[k].prev # <<>>
    /\ Truthy(WorkerOnMessage(fromWorker[k].prev[1]).error)
    /\ Truthy(fromWorker[k].msg.tx)

(***************************************************************************)
(* Properties of the exchange between signers.                              *)
(***************************************************************************)
\* The records createTransaction can return to a signer.
CreatedRecords(signer) ==
  { CreateSerializedTx(
      JObj(<<<<"to", JStr(to)>>, <<"value", JStr(wei)>>, <<"data", JStr(NormalizePayload(p))>>>>),
      signer, n) :
    to \in {x \in Recipients : x # "" /\ IsAddress(x)},
    wei \in {w \in WeiValues : NonNegative(w)},
    p \in Payloads, n \in 0..MaxNonce }

\* Step: a suspended handleCreateTransaction resumes with a record.
CreateCompleted(i) ==
  /\ calls[i].op = "create" /\ calls'[i] = NoCall
  /\ status' = "Transaction created! Share the transaction data below with other signers"

\* C12: the exchange between two signers, stage by stage.  A completed
\* create leaves a record with the creator's signature alone, and a text
\* that parses to that record.  A sign completed by another account on a
\* record a create returned leaves exactly two signatures, the creator's
\* unchanged and then the signing account's, with the to, value, data and
\* nonce of the created record, and a text that parses to that record.  The
\* delivery of the reply to such a text makes the record the current
\* transaction.
C12_Exchange ==
  [][/\ \A i \in 1..MaxCalls :
          CreateCompleted(i)
          => LET r == currentTx' IN
               /\ r \in CreatedRecords(kit.signer)
               /\ Len(Sigs(r)) = 1
               /\ SignerOf(Sigs(r)[1]) = ToLowerCase(kit.signer)
               /\ serializedTxStr' = Serialize(r)
               /\ WorkerOnMessage(serializedTxStr') = Reply(JNull, r)
     /\ \A i \in 1..MaxCalls :
          ( /\ SignCompleted(i)
            /\ \E a \in Accounts : a # kit.signer /\ calls[i].arg \in CreatedRecords(a) )
          => LET r == calls[i].arg
                 out == currentTx'
             IN /\ Len(Sigs(out)) = 2
                /\ Sigs(out)[1] = Sigs(r)[1]
                /\ SignerOf(Sigs(out)[2]) = ToLowerCase(kit.signer)
                /\ SameTxFields(r, out)
                /\ serializedTxStr' = Serialize(out)
                /\ WorkerOnMessage(serializedTxStr') = Reply(JNull, out)
     /\ ( /\ Delivered
          /\ \/ Head(fromWorker).src # JNull /\ IsRecord(Head(fromWorker).src)
             \/ \E r \in ExchangedRecords : Head(fromWorker).of = Serialize(r) )
          => /\ Head(fromWorker).msg.error = JNull
             /\ Head(fromWorker).of = Serialize(currentTx')
             /\ Head(fromWorker).src # JNull => currentTx' = Head(fromWorker).src
             /\ \A r \in ExchangedRecords :
                  Head(fromWorker).of = Serialize(r) => currentTx' = r]_vars

\* The second account has signed the record the first account created, and
\* the text in the field is that of the record with both signatures.
C12_Witness ==
  /\ status = "Signature added successfully!"
  /\ currentTx # JNull
  /\ Len(Sigs(currentTx)) = 2
  /\ \E r \in ExchangedRecords : Sigs(currentTx)[1] = Sigs(r)[1] /\ SameTxFields(r, currentTx)
  /\ SignerOf(Sigs(currentTx)[2]) = ToLowerCase(AcctB)
  /\ serializedTxStr = Serialize(currentTx)

(***************************************************************************)
(* Properties of the can-sign query.                                        *)
(***************************************************************************)
\* The query as described: false without a record or an address, false when
\* the address is, ignoring case, the signer of an entry, true otherwise.
CanSignAsDescribed(tx, addr) ==
  IF tx = JNull \/ addr = "" THEN FALSE
  ELSE ~ \E k \in 1..Len(Sigs(tx)) :
           /\ IsStr(Get(Sigs(tx)[k], "signer"))
           /\ ToLowerCase(SignerOf(Sigs(tx)[k])) = ToLowerCase(addr)

\* C13 as stated: the result that enables the Sign button is, in every
\* state, the described query on the record and the address the App holds.
C13_AsClaimed ==
  canSign = CanSignAsDescribed(currentTx, connectedAddress)

(***************************************************************************)
(* Properties of execution.                                                 *)
(***************************************************************************)
\* Step: a suspended handleExecuteTransaction resumes.
ExecuteResumed(i) == calls[i].op = "execute" /\ calls'[i] = NoCall

ExecutionFailures ==
  { "Transaction execution failed: " \o m : m \in {NoKitMsg, BadSignerMsg, ExternalErrorMsg} }

\* The signers attached to the transaction handed to the kit.
AttachedSigners(r) == { Attached(r)[k][1] : k \in 1..Len(Attached(r)) }

ExecutedStatuses(r) ==
  { "Transaction executed! Hash: " \o TxHash(RebuildSafeTx(r, n)) : n \in 0..MaxNonce }

\* Step: a handler starts a call of the given kind.
Started(i, op) == calls[i] = NoCall /\ calls'[i] # NoCall /\ calls'[i].op = op

\* C15 as stated: no add-signature and no execution is started on a record
\* that is being executed or whose execution is what the status reports.
C15_AsClaimed ==
  [][\A i \in 1..MaxCalls :
       (Started(i, "sign") \/ Started(i, "execute"))
       => /\ status \notin ExecutedStatuses(calls'[i].arg)
          /\ \A j \in 1..MaxCalls :
               calls[j] # NoCall /\ calls[j].op = "execute" => calls[j].arg # calls'[i].arg]_vars

(***************************************************************************)
(* Properties of failures and of the status line.                           *)
(***************************************************************************)
\* The messages of the errors the handlers catch.
CaughtMsgs ==
  { ExternalErrorMsg, NoKitMsg, BadSignerMsg, "Please enter a Safe address",
    "Please enter a recipient address", "Invalid recipient address",
    "Value must be a non-negative amount" }

FailurePrefix(op) ==
  CASE op = "connect" -> "Connection failed: "
    [] op = "reconnect" -> "Failed to reconnect: "
    [] op = "create" -> "Transaction creation failed: "
    [] op = "sign" -> "Failed to add signature: "
    [] op = "execute" -> "Transaction execution failed: "

FailuresOf(op) == { FailurePrefix(op) \o m : m \in CaughtMsgs }

\* The statuses a handler writes when its call has succeeded.
SuccessesOf(c) ==
  CASE c.op = "connect" -> {"Connected successfully"}
    [] c.op = "reconnect" -> {"Account changed successfully"}
    [] c.op = "create" ->
         {"Transaction created! Share the transaction data below with other signers"}
    [] c.op = "sign" -> {"Signature added successfully!"}
    [] c.op = "execute" -> ExecutedStatuses(c.arg)

\* Step: a suspended handler resumes.
Resumed(i) == calls[i] # NoCall /\ calls'[i] = NoCall

\* C16: a handler that resumes writes the success status or one failure
\* status of its operation; when it is a failure, and whenever a failure of
\* connect, create, sign or execute is written before any call, the current
\* transaction, its text and the connected address are left as they are.  A
\* failed reconnect after an account change leaves the current transaction
\* and empties the connected address.
C16_FailureLeavesState ==
  [][/\ \A i \in 1..MaxCalls :
          Resumed(i)
          => /\ status' \in SuccessesOf(calls[i]) \cup FailuresOf(calls[i].op)
             /\ status' \in FailuresOf(calls[i].op)
                  => /\ currentTx' = currentTx
                     /\ serializedTxStr' = serializedTxStr
                     /\ connectedAddress' =
                          IF calls[i].op = "reconnect" THEN "" ELSE connectedAddress
     /\ ( /\ status' # status
          /\ status' \in UNION { FailuresOf(op) : op \in {"connect", "create", "sign", "execute"} } )
          => /\ currentTx' = currentTx
             /\ serializedTxStr' = serializedTxStr
             /\ connectedAddress' = connectedAddress]_vars

\* A connect has failed while an address is connected and a record held.
C16_Witness ==
  /\ status = "Connection failed: " \o ExternalErrorMsg
  /\ connectedAddress # ""
  /\ currentTx # JNull
  /\ \A i \in 1..MaxCalls : calls[i] = NoCall

\* The statuses the delivery of a reply writes.
TextStatuses == ParseErrorMsgs \cup {LoadedStatus}

Quiescent == toWorker = <<>> /\ fromWorker = <<>> /\ \A i \in 1..MaxCalls : calls[i] = NoCall

\* C17 as stated, in two cases where the operation issued last is a text
\* submission and every operation has completed after the step.  An
\* execution started while no text was in flight resumes, successfully,
\* after the reply to a text has been delivered: the status is not the
\* message of that execution.  The reply to a blank text is delivered while
\* the status is that of an earlier text: the status does not stay that of
\* the earlier text.
C17_AsClaimed ==
  [][/\ \A i \in 1..MaxCalls :
          ( /\ Resumed(i)
            /\ calls[i].op = "execute"
            /\ calls[i].quiet
            /\ status \in TextStatuses
            /\ Quiescent' )
          => status' \notin ExecutedStatuses(calls[i].arg)
     /\ ( /\ Delivered
          /\ IsBlank(Head(fromWorker).of)
          /\ status \in TextStatuses
          /\ Quiescent' )
          => status' \notin TextStatuses]_vars

(***************************************************************************)
(* Properties of the values exchanged.                                      *)
(***************************************************************************)
\* The texts in flight, oldest first.
TextsInFlight(to, from) ==
  [k \in 1..(Len(from) + Len(to)) |->
     IF k <= Len(from) THEN from[k].of ELSE to[k - Len(from)].txData]

FieldNames(x) == [k \in 1..Len(x.o) |-> x.o[k][1]]

\* A text is the pretty-printed form of an object with the five fields of
\* the exchange format, in their order.
IsExchangeText(text) ==
  LET r == JSONParse(text) IN
    /\ r.ok
    /\ IsObj(r.val)
    /\ FieldNames(r.val) = <<"to", "value", "data", "signatures", "nonce">>
    /\ Serialize(r.val) = text

\* C19 as stated: the text in the field after a completed create and after
\* a completed sign, whatever record the sign was given, is the
\* pretty-printed object with the fields to, value, data, signatures, nonce
\* in that order.
C19_AsClaimed ==
  [][\A i \in 1..MaxCalls :
       (CreateCompleted(i) \/ SignCompleted(i)) => IsExchangeText(serializedTxStr')]_vars

(***************************************************************************)
(* Properties of transaction creation.                                      *)
(***************************************************************************)
\* A non-negative integer in decimal form, on the amounts of the model.
IsDecimalAmount(w) == w \in {"0", "1000"}

\* to, value and data as creation promises them.
WellFormedFields(r) ==
  /\ IsStr(Get(r, "to")) /\ Get(r, "to").s # "" /\ IsAddress(Get(r, "to").s)
  /\ IsStr(Get(r, "value")) /\ NonNegative(Get(r, "value").s)
  /\ IsDecimalAmount(Get(r, "value").s)
  /\ IsStr(Get(r, "data")) /\ StartsWith0x(Get(r, "data").s)

\* The failures handleCreateTransaction raises before calling the service.
FormFailures ==
  { "Transaction creation failed: " \o m :
      m \in {"Please enter a recipient address", "Invalid recipient address",
             "Value must be a non-negative amount"} }

\* C20: the service is called for creation only with a non-empty recipient
\* that is an address, a non-negative decimal value and data beginning with
\* 0x; the record a completed create leaves has such fields and exactly one
\* signature, by the creator; a create refused for its recipient or value
\* starts no call and leaves the current transaction and its text.
C20_CreatedRecordWellFormed ==
  [][/\ \A i \in 1..MaxCalls :
          /\ Started(i, "create") => WellFormedFields(calls'[i].arg)
          /\ CreateCompleted(i)
               => /\ WellFormedFields(currentTx')
                  /\ SameTxFields(currentTx', JObj(Append(calls[i].arg.o,
                                                  <<"nonce", Get(currentTx', "nonce")>>)))
                  /\ Len(Sigs(currentTx')) = 1
                  /\ SignerOf(Sigs(currentTx')[1]) = ToLowerCase(kit.signer)
     /\ (status' # status /\ status' \in FormFailures)
          => /\ calls' = calls
             /\ currentTx' = currentTx
             /\ serializedTxStr' = serializedTxStr]_vars

\* A create has been refused while the App holds a record.
C20_Witness ==
  /\ status = "Transaction creation failed: " \o "Value must be a non-negative amount"
  /\ currentTx # JNull
  /\ \E a \in Accounts : currentTx \in CreatedRecords(a)

(***************************************************************************)
(* C21: teardown.                                                           *)
(***************************************************************************)
\* A handler suspended in slot i can still take its catch branch.
CanStillFail(i) ==
  CASE calls[i].op \in {"connect", "reconnect"} -> ENABLED (\E w \in BOOLEAN : ConnectFail(i, w))
    [] calls[i].op = "create" -> ENABLED CreateFail(i)
    [] calls[i].op = "sign" -> ENABLED SignFail(i)
    [] calls[i].op = "execute" -> ENABLED ExecuteFail(i)
    [] OTHER -> TRUE

\* C21: the teardown step empties both directions of the worker channel and
\* leaves the suspended handlers as they are; from then on the component stays
\* unmounted, nothing is posted to or delivered from the worker, and a step
\* changes the current transaction, the connected address or the status only
\* by resuming a handler that was already waiting for the wallet or the
\* Safe kit (an account switch of the wallet changes none of them); such a
\* handler can still resume.
C21_TeardownSilencesEvents ==
  [][/\ (mounted /\ ~mounted')
          => /\ calls' = calls
             /\ toWorker' = <<>>
             /\ fromWorker' = <<>>
             /\ UNCHANGED <<currentTx, connectedAddress, status>>
     /\ ~mounted
          => /\ ~mounted'
             /\ toWorker' = <<>>
             /\ fromWorker' = <<>>
             /\ \A i \in 1..MaxCalls : ~(calls[i] = NoCall /\ calls'[i] # NoCall)
             /\ <<currentTx, connectedAddress, status>>' # <<currentTx, connectedAddress, status>>
                  => \E i \in 1..MaxCalls : Resumed(i)
             /\ walletAccount' # walletAccount
                  => UNCHANGED <<currentTx, connectedAddress, status, calls>>
             /\ \A i \in 1..MaxCalls : CanStillFail(i)]_vars

\* The component was torn down while a sign was waiting for the wallet.
C21_Witness ==
  /\ ~mounted
  /\ \E i \in 1..MaxCalls : calls[i].op = "sign"
  /\ connectedAddress # ""
  /\ currentTx # JNull

(***************************************************************************)
(* C22: no automatic retry.                                                 *)
(***************************************************************************)
AllFailures ==
  UNION { FailuresOf(op) : op \in {"connect", "reconnect", "create", "sign", "execute"} }

\* C22: a call to the wallet or the Safe kit is issued only in the step of a
\* user action or of an account-change notification (a step that consumes an
\* event); the step in which a handler resumes with a failure frees its call
\* and issues none, and a failure status written outside an event step is
\* written by a handler that resumes and ends.
C22_NoAutomaticRetry ==
  [][/\ \A i \in 1..MaxCalls :
          /\ (calls'[i] # NoCall /\ calls'[i] # calls[i]) => ops' < ops
          /\ (Resumed(i) /\ status' \in FailuresOf(calls[i].op))
               => /\ ops' = ops
                  /\ calls' = [calls EXCEPT ![i] = NoCall]
     /\ (ops' = ops /\ status' # status /\ status' \in AllFailures)
          => \E i \in 1..MaxCalls : Resumed(i)]_vars

\* A sign has failed, a record is held and no call is pending.
C22_Witness ==
  /\ status \in FailuresOf("sign")
  /\ currentTx # JNull
  /\ \A i \in 1..MaxCalls : calls[i] = NoCall

(***************************************************************************)
(* C23: account-change notifications.                                       *)
(***************************************************************************)
\* C23: while the component is mounted, a notification with no account
\* empties the connected address, writes 'Wallet disconnected', starts no
\* call and leaves the current transaction and its text; a notification with
\* an account, when the Safe address field is not empty, starts a reconnect
\* to that Safe address and changes nothing else of the App; the reconnect
\* ends with the connected address equal to the account the wallet exposes
\* then (the kit's signer) and 'Account changed successfully', or with an
\* empty connected address and a reconnect failure.
C23_AccountChange ==
  [][/\ (mounted' /\ walletAccount # "" /\ walletAccount' = "")
          => /\ connectedAddress' = ""
             /\ status' = "Wallet disconnected"
             /\ calls' = calls
             /\ currentTx' = currentTx
             /\ serializedTxStr' = serializedTxStr
     /\ (mounted' /\ walletAccount' # walletAccount /\ walletAccount' # "" /\ safeAddress # "")
          => /\ \E i \in 1..MaxCalls :
                  /\ Started(i, "reconnect")
                  /\ calls'[i].arg = JStr(safeAddress)
             /\ UNCHANGED ui
     /\ \A i \in 1..MaxCalls :
          (Resumed(i) /\ calls[i].op = "reconnect")
          => \/ /\ walletAccount # ""
                /\ connectedAddress' = walletAccount
                /\ kit'.signer = walletAccount
                /\ status' = "Account changed successfully"
             \/ /\ connectedAddress' = ""
                /\ status' \in FailuresOf("reconnect")]_vars

\* After a switch to another account the reconnect has succeeded while a
\* record is held.
C23_Witness ==
  /\ status = "Account changed successfully"
  /\ connectedAddress = walletAccount
  /\ currentTx # JNull

(***************************************************************************)
(* C24: what handleCreateSafe passes to createSafe.                         *)
(***************************************************************************)
FormErrors == {FormErrNoOwner, FormErrThreshold, FormErrNoWallet}

\* Step: the 'safecreated' event is dispatched.
SafeCreatedDispatched == dispatched' # dispatched

\* C24, as the specification states it: a createSafe call is started only
\* with the non-blank owner entries, at least one of them, and a threshold
\* between 1 and their number; a step that reports one of the form's errors
\* starts no call; and 'safecreated' is dispatched only by the step in which a
\* createSafe call resumes with success.
C24_AsClaimed ==
  [][/\ \A i \in 1..MaxCalls :
          Started(i, "createSafe")
          => /\ calls'[i].arg.owners = ValidOwners(owners)
             /\ Len(calls'[i].arg.owners) >= 1
             /\ calls'[i].arg.threshold >= 1
             /\ calls'[i].arg.threshold <= Len(calls'[i].arg.owners)
     /\ (isError' /\ formStatus' # formStatus /\ formStatus' \in FormErrors)
          => calls' = calls
     /\ SafeCreatedDispatched
          => \E i \in 1..MaxCalls :
               /\ Resumed(i)
               /\ calls[i].op = "createSafe"
               /\ formStatus' = FormCreated]_vars

(***************************************************************************)
(* C25: preconditions of connecting and of deploying.                       *)
(***************************************************************************)
NoAddressFailure == "Connection failed: " \o "Please enter a Safe address"

\* C25: a connect call is started only with the non-empty content of the
\* Safe address field, and the step that reports 'Please enter a Safe
\* address' starts no call and leaves the service and the connected address;
\* the service's signer is set only by a connect that finds it unset, and a
\* connect that finds it set keeps it (wallet access is not requested
\* again); a createSafe call is started only when the signer is set, and the
\* step that reports 'Wallet not connected' happens with the signer unset,
\* marks the error and starts no call; the connected address takes a
\* non-empty value only in the step where a connect resumes with success,
\* and the value is the address of the signer the kit was initialised with.
C25_ConnectionPreconditions ==
  [][/\ \A i \in 1..MaxCalls :
          /\ Started(i, "connect")
               => /\ safeAddress # ""
                  /\ calls'[i].arg = JStr(safeAddress)
          /\ Started(i, "createSafe") => svcSigner
     /\ (status' = NoAddressFailure /\ status' # status)
          => /\ safeAddress = ""
             /\ calls' = calls
             /\ UNCHANGED <<svc, connectedAddress>>
     /\ svcSigner' # svcSigner
          => /\ ~svcSigner
             /\ \E i \in 1..MaxCalls : Resumed(i) /\ calls[i].op \in {"connect", "reconnect"}
     /\ (formStatus' = FormErrNoWallet /\ formStatus' # formStatus)
          => /\ ~svcSigner
             /\ isError'
             /\ calls' = calls
             /\ dispatched' = dispatched
     /\ (connectedAddress' # connectedAddress /\ connectedAddress' # "")
          => /\ \E i \in 1..MaxCalls :
                  /\ Resumed(i)
                  /\ calls[i].op \in {"connect", "reconnect"}
                  /\ status' \in SuccessesOf(calls[i])
             /\ svcSigner'
             /\ kit'.init
             /\ kit'.signer = connectedAddress']_vars

\* Create Safe was clicked with an owner entered before any wallet
\* connection, and Connect was clicked with the Safe address field empty.
C25_Witness ==
  /\ formStatus = FormErrNoWallet
  /\ isError
  /\ ~svcSigner
  /\ status = NoAddressFailure
  /\ connectedAddress = ""

(***************************************************************************)
(* C26: Sign and Execute need a record.                                     *)
(***************************************************************************)
NoTxFailures ==
  {"Failed to add signature: " \o NoTxMsg, "Transaction execution failed: " \o NoTxMsg}

\* C26: the step in which handleAddSignature or handleExecuteTransaction
\* reports 'Please load a transaction first' happens while the current
\* transaction is none, starts no call, and leaves the current transaction,
\* its text, the connected address and the service; a sign or execute call is
\* started only with the record held at that moment, which is not none; and
\* while no record is held each of the two handlers, when invoked, takes
\* this failing branch.
C26_NeedsLoadedTx ==
  [][/\ (status' \in NoTxFailures /\ status' # status)
          => /\ currentTx = JNull
             /\ calls' = calls
             /\ UNCHANGED <<currentTx, serializedTxStr, connectedAddress, canSign, svc, chan>>
     /\ \A i \in 1..MaxCalls :
          (Started(i, "sign") \/ Started(i, "execute"))
          => /\ currentTx # JNull
             /\ calls'[i].arg = currentTx
     /\ (currentTx = JNull /\ mounted /\ ops > 0)
          => /\ ENABLED handleAddSignatureNoTx
             /\ ENABLED handleExecuteTransactionNoTx
             /\ ~ ENABLED SignClick
             /\ ~ ENABLED ExecuteClick]_vars

\* Sign was invoked while the field holds a text that is not a record.
C26_Witness ==
  /\ status = "Failed to add signature: " \o NoTxMsg
  /\ connectedAddress # ""
  /\ serializedTxStr # <<>>
  /\ currentTx = JNull
  /\ InFlight = 0

(***************************************************************************)
(* C27: the record and the text of the transaction field.                   *)
(***************************************************************************)
\* What the worker makes of a text: the record, or none.
ParseOf(text) ==
  LET m == WorkerOnMessage(text) IN IF Truthy(m.error) THEN JNull ELSE m.tx

\* No reply is pending and no create or sign is waiting.
NoWriterPending ==
  /\ InFlight = 0
  /\ \A i \in 1..MaxCalls : calls[i].op \notin {"create", "sign"}

\* C27, as the specification states it: in every quiescent state the current
\* transaction is what the worker makes of the text in the transaction
\* field (compared through their JSON texts, so that a property holding
\* undefined counts as absent).
C27_AsClaimed ==
  NoWriterPending => Serialize(currentTx) = Serialize(ParseOf(serializedTxStr))

(***************************************************************************)
(* C28: a sign that completes after the record has changed.                 *)
(***************************************************************************)
\* Every signature of r is a signature of out: same signer, ignoring letter
\* case, and same data.
KeepsSignatures(r, out) ==
  \A k \in 1..Len(Sigs(r)) :
    \E m \in 1..Len(Sigs(out)) :
      /\ ToLowerCase(SignerOf(Sigs(out)[m])) = ToLowerCase(SignerOf(Sigs(r)[k]))
      /\ Get(Sigs(out)[m], "data") = Get(Sigs(r)[k], "data")

\* C28, as the specification states it: when a sign completes successfully a
\* record is held just before, and the record installed has its to, value,
\* data and nonce and every one of its signatures.
C28_AsClaimed ==
  [][\A i \in 1..MaxCalls :
       SignCompleted(i)
       => /\ currentTx # JNull
          /\ SameTxFields(currentTx, currentTx')
          /\ KeepsSignatures(currentTx, currentTx')]_vars

(***************************************************************************)
(* C29: the connected address and the wallet's account.                     *)
(***************************************************************************)
NoConnectPending == \A i \in 1..MaxCalls : calls[i].op \notin {"connect", "reconnect"}

\* C29, as the specification states it: whenever the connected address is
\* not empty and no connect or reconnect is waiting, it is the wallet's
\* active account.
C29_AsClaimed ==
  (connectedAddress # "" /\ NoConnectPending) => connectedAddress = walletAccount

(***************************************************************************)
(* C30: the owners list and the threshold of the Create Safe form.          *)
(***************************************************************************)
\* Step: an owner entry is removed.
OwnerRemoved == Len(owners') < Len(owners)

\* C30: the owners list has at least one entry before and after every step,
\* an entry is removed only while there are at least two, one at a time, and
\* after a removal the threshold is at most the number of entries: it is
\* lowered to that number when it was above it and kept otherwise.
C30_OwnersAndThreshold ==
  [][/\ Len(owners) >= 1
     /\ Len(owners') >= 1
     /\ OwnerRemoved
          => /\ Len(owners) > 1
             /\ Len(owners') = Len(owners) - 1
             /\ threshold' <= Len(owners')
             /\ threshold' = IF threshold > Len(owners') THEN Len(owners') ELSE threshold]_vars

\* One entry is left after three form events, with threshold 1 and an
\* address typed in it.
C30_Witness ==
  /\ Len(owners) = 1
  /\ Trim(owners[1]) # ""
  /\ threshold = 1
  /\ ops = MaxFormOps - 3

====
